---- MODULE Spec2Model ----
(***************************************************************************)
(* Model of the product-photo pipeline of Kevin-MVP-Image.                 *)
(*                                                                         *)
(*   src/enhance.js        main: convertToPngAndSquare -> removeBackground *)
(*                         -> repositionProduct -> enhanceImageWithSharp,  *)
(*                         with a recovery block in the catch handler;     *)
(*                         callDalleEdit (retrying adapter, not called by  *)
(*                         main of this file).                             *)
(*   src/unnamed/part_000  main: convertToPngAndSquare -> createWhiteMask  *)
(*                         -> callDalleEdit -> downloadImage.              *)
(*                                                                         *)
(* One behaviour of the model is one invocation: of main of enhance.js     *)
(* (entry "enhance"), of main of part_000 (entry "part000"), or one call   *)
(* of callDalleEdit of enhance.js on two arbitrary files (entry            *)
(* "calldalle").  External services, the decoder and the file system are   *)
(* the environment: each request resolves or rejects, chosen with \E; a    *)
(* local sharp/fs pipeline rejects when its input cannot be decoded and,   *)
(* in an invocation whose file system or decoder is faulty (localFaults),  *)
(* may reject on any call.                                                 *)
(***************************************************************************)
EXTENDS Integers, Sequences, FiniteSets, TLC

(* ------------------------------------------------------------------ *)
(* Program constants                                                    *)
(* ------------------------------------------------------------------ *)

\* const maxRetries = 3 (removeBackground and callDalleEdit of enhance.js)
maxRetries == 3

\* setTimeout(resolve, 1000 * attempt) in removeBackground
removeBgBackoffBase == 1000

\* setTimeout(resolve, 2000 * attempt) in callDalleEdit
dalleBackoffBase == 2000

\* resize(1024, 1024, ...) and the canvas of repositionProduct
CanvasSize == 1024

\* 4 * 1024 * 1024, the per-file limit tested by callDalleEdit
DalleFileLimit == 4 * 1024 * 1024

(* ------------------------------------------------------------------ *)
(* Files                                                                *)
(* ------------------------------------------------------------------ *)

\* A file on disk: encoding, pixel size, channel count, the function that
\* wrote it ("by"), the path it was computed from ("from") and the
\* invocation that wrote it ("run": "cur" for this one, "old" for a file
\* left in ./output by an earlier invocation).
Art(fmt, w, h, ch, by, from, run) ==
  [fmt |-> fmt, w |-> w, h |-> h, ch |-> ch, by |-> by, from |-> from, run |-> run]

Absent == Art("absent", 0, 0, 0, "none", "none", "none")

Paths == {"input", "inputPng", "noBg", "noBgTemp", "repositioned", "mask", "output"}

Exists(f) == f.fmt # "absent"

\* sharp(path) can decode the file
Decodable(f) == f.fmt \in {"png", "jpeg"}

\* The first four bytes are 89 50 4E 47
HasPngSignature(f) == f.fmt = "png"

\* Files a user may pass as argv[2]
InputFiles ==
  { Art("jpeg", 400, 600, 3, "user", "none", "cur"),
    Art("png", 2000, 1000, 4, "user", "none", "cur"),
    Art("junk", 0, 0, 0, "user", "none", "cur"),
    Absent }

\* What an earlier invocation on a file of the same name may have left
StaleRepositioned == Art("png", CanvasSize, CanvasSize, 4, "repositionProduct", "noBg", "old")

StaleOutput == Art("png", CanvasSize, CanvasSize, 3, "enhanceImageWithSharp", "repositioned", "old")

\* Files callDalleEdit may be handed when it is called on its own
DalleFiles ==
  { Art(fmt, d, d, ch, "user", "none", "cur") :
      fmt \in {"png", "jpeg"}, d \in {512, CanvasSize}, ch \in {3, 4} }
  \cup {Absent}

\* File sizes fs.promises.stat may report
FileSizes == {1024, 3 * 1024 * 1024, DalleFileLimit, DalleFileLimit + 1}

(* ------------------------------------------------------------------ *)
(* repositionProduct: the arithmetic of lines 281-354                   *)
(* ------------------------------------------------------------------ *)

\* if (data[idx + 3] > 50)
alphaThreshold == 50

\* const padding = 10
padding == 10

\* The decoded RGBA raster of a file, as far as the scan reads it: its
\* size and the set fg of pixels << x, y, alpha >> whose alpha is not 0
\* (every pixel not listed has alpha 0)
Image(w, h, fg) == [w |-> w, h |-> h, fg |-> fg]

Min(S) == CHOOSE m \in S : \A n \in S : m <= n

Max(S) == CHOOSE m \in S : \A n \in S : m >= n

\* the alpha test with the threshold doubled
ForegroundDoubledThreshold(img, t) == { p \in img.fg : p[3] > 2 * t }

\* the pixels that pass the test of line 291 under threshold t
Foreground(img, t) == { p \in img.fg : p[3] > t }

\* lines 286-298: minX and minY start at the image size, maxX and maxY at
\* -1, and every foreground pixel lowers the minima and raises the maxima
ScanBox(img, t) ==
  LET F == Foreground(img, t)
  IN  [minX |-> Min({img.w} \cup { p[1] : p \in F }),
       maxX |-> Max({-1} \cup { p[1] : p \in F }),
       minY |-> Min({img.h} \cup { p[2] : p \in F }),
       maxY |-> Max({-1} \cup { p[2] : p \in F })]

\* the fallback box with the far edges one past the last column and row
BoundingBoxPastTheEdge(img, t) ==
  LET b == ScanBox(img, t)
  IN  IF b.maxX = -1 \/ b.maxY = -1
      THEN [minX |-> 0, maxX |-> img.w, minY |-> 0, maxY |-> img.h]
      ELSE b

\* lines 301-305: when nothing was found the box is the entire image
BoundingBox(img, t) ==
  LET b == ScanBox(img, t)
  IN  IF b.maxX = -1 \/ b.maxY = -1
      THEN [minX |-> 0, maxX |-> img.w - 1, minY |-> 0, maxY |-> img.h - 1]
      ELSE b

\* the crop with its width and height not limited to the image
CropRectUnclamped(img, b) ==
  [left |-> Max({0, b.minX - padding}),
   top |-> Max({0, b.minY - padding}),
   width |-> b.maxX - b.minX + 1 + padding * 2,
   height |-> b.maxY - b.minY + 1 + padding * 2]

\* lines 307-312: cropLeft, cropTop, cropWidth, cropHeight
CropRect(img, b) ==
  LET cropLeft == Max({0, b.minX - padding})
      cropTop == Max({0, b.minY - padding})
  IN  [left |-> cropLeft,
       top |-> cropTop,
       width |-> Min({img.w - cropLeft, b.maxX - b.minX + 1 + padding * 2}),
       height |-> Min({img.h - cropTop, b.maxY - b.minY + 1 + padding * 2})]

\* sharp's extract (lines 316-323) rejects an area that is empty or not
\* inside the image
ExtractOk(img, c) ==
  /\ c.left >= 0 /\ c.top >= 0 /\ c.width >= 1 /\ c.height >= 1
  /\ c.left + c.width <= img.w
  /\ c.top + c.height <= img.h

\* Math.floor(canvasWidth * 0.7)
maxWidth == (CanvasSize * 7) \div 10

\* Math.floor(canvasHeight * 0.6)
maxHeight == (CanvasSize * 6) \div 10

\* a / b rounded to the nearest integer, halves upwards
Round(a, b) == (2 * a + b) \div (2 * b)

\* sharp's resize(mw, mh, { fit: 'inside', withoutEnlargement: true }):
\* the aspect ratio is kept, the larger reduction factor decides, and an
\* image that is already inside the box is left as it is
ResizeInside(w, h, mw, mh) ==
  IF w <= mw /\ h <= mh THEN [w |-> w, h |-> h]
  ELSE IF w * mh > h * mw THEN [w |-> mw, h |-> Round(h * mw, w)]
  ELSE [w |-> Round(w * mh, h), h |-> mh]

\* the fit step with only the width tested
FitSizeWidthOnly(cw, ch) ==
  IF cw > maxWidth
  THEN ResizeInside(cw, ch, maxWidth, maxHeight)
  ELSE [w |-> cw, h |-> ch]

\* lines 335-348: the crop is resized only when it exceeds the box
FitSize(cw, ch) ==
  IF cw > maxWidth \/ ch > maxHeight
  THEN ResizeInside(cw, ch, maxWidth, maxHeight)
  ELSE [w |-> cw, h |-> ch]

\* the left offset with only finalWidth halved
LeftOfUnparenthesized(finalWidth) == CanvasSize - (finalWidth \div 2)

\* const left = Math.floor((canvasWidth - finalWidth) / 2)
LeftOf(finalWidth) == (CanvasSize - finalWidth) \div 2

\* the top offset with a tenth of the canvas height left below the product
TopOfTenth(finalHeight) == ((CanvasSize - finalHeight) * 100 - CanvasSize * 10) \div 100

\* const top = Math.floor(canvasHeight - finalHeight - (canvasHeight * 0.15))
TopOf(finalHeight) == ((CanvasSize - finalHeight) * 100 - CanvasSize * 15) \div 100

\* everything repositionProduct computes from the raster it read
RepositionGeometry(img) ==
  LET b == BoundingBox(img, alphaThreshold)
      c == CropRect(img, b)
      f == FitSize(c.width, c.height)
  IN  [done |-> TRUE, img |-> img,
       found |-> ~(ScanBox(img, alphaThreshold).maxX = -1
                   \/ ScanBox(img, alphaThreshold).maxY = -1),
       box |-> b, crop |-> c, final |-> f,
       left |-> LeftOf(f.w), top |-> TopOf(f.h)]

\* before repositionProduct has run
GeoNone ==
  [done |-> FALSE, img |-> Image(0, 0, {}), found |-> FALSE,
   box |-> [minX |-> 0, maxX |-> 0, minY |-> 0, maxY |-> 0],
   crop |-> [left |-> 0, top |-> 0, width |-> 0, height |-> 0],
   final |-> [w |-> 0, h |-> 0], left |-> 0, top |-> 0]

\* a filled rectangle of alpha a
Rect(x0, y0, x1, y1, a) == { << x, y, a >> : x \in x0..x1, y \in y0..y1 }

\* two opaque pixels, the opposite corners of the box they span
Corners(x0, y0, x1, y1) == { << x0, y0, 255 >>, << x1, y1, 255 >> }

\* the largest filled rectangle, in pixels, among the rasters enumerated
MaxRectPixels == 150

\* coordinates at and around the places where the padding is clamped
Coords(n) == {0, 5, 10, 11, n \div 2, n - 12, n - 11, n - 1} \cap (0..(n - 1))

\* rasters of noBgPath when main runs repositionProduct
MainImages(w, h) ==
  { Image(w, h, {}),
    Image(w, h, { << 5, 5, 50 >> }),
    Image(w, h, Rect(500, 500, 505, 505, 255)),
    Image(w, h, Rect(0, 3, 5, 8, 255)),
    Image(w, h, Corners(100, 100, 900, 800)),
    Image(w, h, Corners(2, 300, 1020, 310)) }

\* rasters repositionProduct is called on when it is called on its own
UnitImages(w, h) ==
  { Image(w, h, Corners(q[1], q[2], q[3], q[4])) :
      q \in { r \in Coords(w) \X Coords(h) \X Coords(w) \X Coords(h) :
                r[1] <= r[3] /\ r[2] <= r[4] } }
  \cup
  { Image(w, h, Rect(q[1], q[2], q[3], q[4], 255)) :
      q \in { r \in Coords(w) \X Coords(h) \X Coords(w) \X Coords(h) :
                /\ r[1] <= r[3] /\ r[2] <= r[4]
                /\ (r[3] - r[1] + 1) * (r[4] - r[2] + 1) <= MaxRectPixels } }
  \cup
  { Image(w, h, {}),
    Image(w, h, { << 5, 5, 50 >> }),
    Image(w, h, { << 5, 5, 1 >>, << 6, 5, 50 >> }),
    Image(w, h, { << 5, 5, 50 >>, << 6, 5, 51 >> }) }

\* sizes of the files repositionProduct is called on when called on its own
UnitSizes == { << CanvasSize, CanvasSize >>, << 40, 30 >>, << CanvasSize, 16 >> }

\* the rasters the file f may hold
ImagesAt(e, f) ==
  IF ~Decodable(f) THEN { Image(f.w, f.h, {}) }
  ELSE IF e = "reposition" THEN UnitImages(f.w, f.h)
  ELSE MainImages(f.w, f.h)

(* ------------------------------------------------------------------ *)
(* Masks and finalizers                                                 *)
(* ------------------------------------------------------------------ *)

\* the pixels at which a mask and its source image are compared
SamplePixels == { << 0, 0 >>, << 512, 700 >> }

\* alpha values a source pixel may have
AlphaValues == {0, 127, 128, 255}

\* the alpha of the source image at the sample pixels (an image without
\* an alpha channel is opaque)
SourceAlphas(f) ==
  IF f.ch = 4 THEN [SamplePixels -> AlphaValues] ELSE [SamplePixels -> {255}]

\* createWhiteMask of part_000: background { r: 255, g: 255, b: 255, alpha: 1 }
WhiteMaskAt(p) == 255

\* <rect x="0" y="614" width="1024" height="410" fill="black"/>
maskSplit == 614

\* createBackgroundMask of enhance.js: rows 0..613 white, rows 614..1023 black
BackgroundMaskAt(p) == IF p[2] < maskSplit THEN 255 ELSE 0

\* a mask file next to the image it was made for: the size and channels of
\* the mask, the size of the source, and per sample pixel the source alpha
\* and the mask value
MaskRecord(by, ch, src, alphas, values) ==
  [made |-> TRUE, by |-> by, w |-> CanvasSize, h |-> CanvasSize, ch |-> ch,
   srcW |-> src.w, srcH |-> src.h,
   px |-> [p \in SamplePixels |-> [alpha |-> alphas[p], value |-> values[p]]]]

NoMask ==
  [made |-> FALSE, by |-> "none", w |-> 0, h |-> 0, ch |-> 0, srcW |-> 0, srcH |-> 0,
   px |-> [p \in SamplePixels |-> [alpha |-> 0, value |-> 0]]]

\* the operations enhanceImageWithSharp chains on sharp(inputPath)
EnhanceOps == << "flatten", "modulate", "sharpen", "linear", "composite", "png" >>

\* the operations postProcessImage chains on sharp(inputPath)
PostProcessOps == << "flatten", "modulate", "sharpen", "png" >>

\* files the functions that main never calls are called on
UnitFiles ==
  { Art("png", CanvasSize, CanvasSize, 4, "user", "none", "cur"),
    Art("png", 640, 480, 4, "user", "none", "cur"),
    Art("jpeg", 400, 600, 3, "user", "none", "cur"),
    Art("junk", 0, 0, 0, "user", "none", "cur") }

(* ------------------------------------------------------------------ *)
(* Two invocations at once                                              *)
(* ------------------------------------------------------------------ *)

Invocations == {1, 2}

\* no argv[2]
NoInput == [dir |-> "", stem |-> "", ext |-> ""]

\* argv[2] of an invocation: directory, name without extension, extension
PairInputs ==
  { [dir |-> "a", stem |-> "photo", ext |-> ".jpg"],
    [dir |-> "b", stem |-> "photo", ext |-> ".jpg"],
    [dir |-> "a", stem |-> "photo", ext |-> ".png"],
    [dir |-> "a", stem |-> "shoe", ext |-> ".jpg"] }

\* path.basename(inputPath, path.extname(inputPath))
Basename(input) == input.stem

\* A path of ./output: the part taken from the input and the fixed part
\* path.join(OUTPUT_DIR, `${filename}_input.png`)
InputPngPath(input) == << Basename(input), "_input.png" >>

\* path.join(OUTPUT_DIR, `${filename}_no_bg.png`)
NoBgPath(input) == << Basename(input), "_no_bg.png" >>

\* path.join(OUTPUT_DIR, `${filename}_repositioned.png`)
RepositionedPath(input) == << Basename(input), "_repositioned.png" >>

\* path.join(OUTPUT_DIR, `ideal-image-result.png`)
OutputPath(input) == << "", "ideal-image-result.png" >>

\* const tempPath = outputPath + '.temp'
TempPath(outputPath) == << outputPath[1], outputPath[2] \o ".temp" >>

InvIdle ==
  [i \in Invocations |->
     [input |-> NoInput, pc |-> "Idle", written |-> {}, foreign |-> {}]]

(* ------------------------------------------------------------------ *)
(* State                                                                *)
(* ------------------------------------------------------------------ *)

VARIABLES
  entry,       \* which program runs: "enhance", "part000", "calldalle"
  openaiBound, \* the identifier OpenAI resolves in the running module
  argvGiven,   \* process.argv[2] is set
  apiKey,      \* the API key main tests is set in the environment
  localFaults, \* local sharp/fs calls may reject (disk full, EACCES, libvips)
  pc,          \* position of the control flow
  fs,          \* the files: Paths -> file or Absent
  trace,       \* stage functions called by the try block of main, in order
  recovered,   \* what the recovery block of the catch handler did
  caught,      \* the stage whose error main caught, or "none"
  lastGood,    \* path of the latest artifact written by this invocation
  rb,          \* removeBackground: attempt, requests, waits, result
  de,          \* callDalleEdit: attempt, requests, waits, result, sizes
  url,         \* what callDalleEdit returned to main of part_000
  exitCode,    \* -1 while running, else the process exit status
  geo,         \* repositionProduct: the image it read and what it computed
  steps,       \* the sharp operations chained by the last finalizer call
  maskPx,      \* the mask written: source alpha and mask value per sample pixel
  inv,         \* two concurrent invocations of main: input, pc, paths written
  disk         \* the paths of ./output the two invocations have written

vars ==
  << entry, openaiBound, argvGiven, apiKey, localFaults, pc, fs, trace, recovered, caught,
     lastGood, rb, de, url, exitCode, geo, steps, maskPx, inv, disk >>

\* what the invocation is given and never assigns
env == << entry, openaiBound, argvGiven, apiKey, localFaults >>

\* the state of the two-invocation run, which a single invocation leaves alone
pair == << inv, disk >>

RbInit ==
  [attempt |-> 0, requests |-> 0, waits |-> << >>, failed |-> << >>,
   lastError |-> "none", result |-> "none", ret |-> "none"]

DeInit ==
  [attempt |-> 0, requests |-> 0, waits |-> << >>, failed |-> << >>,
   lastError |-> "none", result |-> "none", error |-> "none",
   imageSize |-> 0, maskSize |-> 0, sent |-> << >>]

Init ==
  /\ entry \in {"enhance", "part000", "calldalle"}
  /\ openaiBound \in (IF entry = "calldalle" THEN BOOLEAN
                      ELSE IF entry = "part000" THEN {TRUE} ELSE {FALSE})
  /\ argvGiven \in (IF entry = "calldalle" THEN {TRUE} ELSE BOOLEAN)
  /\ apiKey \in (IF entry = "calldalle" THEN {TRUE} ELSE BOOLEAN)
  /\ localFaults \in (IF entry = "calldalle" THEN {FALSE} ELSE BOOLEAN)
  /\ pc = (IF entry = "calldalle" THEN "DeEnter" ELSE "Start")
  /\ \E input \in InputFiles, image \in DalleFiles, mask \in DalleFiles,
        oldRep \in {Absent, StaleRepositioned}, oldOut \in {Absent, StaleOutput} :
       fs = [p \in Paths |->
               IF entry = "calldalle"
               THEN (IF p = "inputPng" THEN image
                     ELSE IF p = "mask" THEN mask ELSE Absent)
               ELSE (IF p = "input" THEN input
                     ELSE IF p = "repositioned" /\ entry = "enhance" THEN oldRep
                     ELSE IF p = "output" THEN oldOut
                     ELSE Absent)]
  /\ trace = << >>
  /\ recovered = "no"
  /\ caught = "none"
  /\ lastGood = "none"
  /\ rb = RbInit
  /\ de = DeInit
  /\ url = "none"
  /\ exitCode = -1
  /\ geo = GeoNone
  /\ steps = << >>
  /\ maskPx = NoMask
  /\ inv = InvIdle
  /\ disk = {}

\* A function of enhance.js is called on its own: removeBackground,
\* repositionProduct, or one of the two functions main never calls
\* (createBackgroundMask, postProcessImage)
InitUnits ==
  /\ entry \in {"removebg", "reposition", "mask", "postprocess"}
  /\ openaiBound = FALSE
  /\ argvGiven = TRUE
  /\ apiKey \in (IF entry = "removebg" THEN BOOLEAN ELSE {TRUE})
  /\ localFaults \in BOOLEAN
  /\ pc = (IF entry = "removebg" THEN "RemoveBackground"
           ELSE IF entry = "reposition" THEN "Reposition"
           ELSE IF entry = "mask" THEN "MaskUnit" ELSE "PostProcessUnit")
  /\ \E size \in UnitSizes, file \in UnitFiles \cup {Absent} :
       fs = [p \in Paths |->
               IF entry = "reposition" /\ p = "noBg"
               THEN Art("png", size[1], size[2], 4, "user", "none", "cur")
               ELSE IF entry \in {"removebg", "mask"} /\ p = "inputPng" THEN file
               ELSE IF entry = "postprocess" /\ p = "repositioned" THEN file
               ELSE Absent]
  /\ trace = << >>
  /\ recovered = "no"
  /\ caught = "none"
  /\ lastGood = "none"
  /\ rb = RbInit
  /\ de = DeInit
  /\ url = "none"
  /\ exitCode = -1
  /\ geo = GeoNone
  /\ steps = << >>
  /\ maskPx = NoMask
  /\ inv = InvIdle
  /\ disk = {}

(* ------------------------------------------------------------------ *)
(* Helpers of the control flow                                          *)
(* ------------------------------------------------------------------ *)

\* EnhanceStages with steps 2 and 3 of the try block exchanged
EnhanceStagesSwapped ==
  << "convertToPngAndSquare", "repositionProduct", "removeBackground",
     "enhanceImageWithSharp" >>

\* The stage functions the try block of main calls, in program order
EnhanceStages ==
  << "convertToPngAndSquare", "removeBackground", "repositionProduct",
     "enhanceImageWithSharp" >>

Part000Stages ==
  << "convertToPngAndSquare", "createWhiteMask", "callDalleEdit", "downloadImage" >>

StagesOf(e) ==
  IF e = "enhance" THEN EnhanceStages
  ELSE IF e = "reposition" THEN << "repositionProduct" >>
  ELSE IF e = "removebg" THEN << "removeBackground" >>
  ELSE Part000Stages

\* pc value at which main is about to call each stage function
PcOf(fn) ==
  CASE fn = "convertToPngAndSquare" -> "Normalize"
    [] fn = "removeBackground" -> "RemoveBackground"
    [] fn = "repositionProduct" -> "Reposition"
    [] fn = "createWhiteMask" -> "SynthesizeMask"
    [] fn = "callDalleEdit" -> "Inpaint"
    [] fn = "downloadImage" -> "Download"
    [] fn = "enhanceImageWithSharp" -> "PostProcess"

\* The statement after the k-th call of the try block: the next call, or
\* the end of the try block
AfterStage(e, k) ==
  IF k < Len(StagesOf(e)) THEN PcOf(StagesOf(e)[k + 1]) ELSE "Done"

\* main awaits the stage it has just entered: control goes on to the next
\* statement of the try block (when the last one returns main falls off
\* its end and the process exits with status 0)
Proceed(tr) ==
  /\ pc' = AfterStage(entry, Len(tr))
  /\ exitCode' = IF AfterStage(entry, Len(tr)) = "Done" THEN 0 ELSE exitCode

\* a rejected await: control jumps to the catch handler of main
Throw(stage) ==
  /\ pc' = "Catch"
  /\ caught' = stage
  /\ exitCode' = exitCode

\* whether an awaited local sharp/fs pipeline may resolve (TRUE) or reject
LocalOutcomes == IF localFaults THEN BOOLEAN ELSE {TRUE}

\* Backoff without the attempt factor
BackoffConstant(base, attempt) == base

\* const delay = base * attempt
Backoff(base, attempt) == base * attempt

(* ------------------------------------------------------------------ *)
(* main of enhance.js                                                   *)
(* ------------------------------------------------------------------ *)

\* main, lines 622-640: usage and API-key tests, then the paths
MainStart ==
  /\ pc = "Start"
  /\ IF ~argvGiven \/ ~apiKey
     THEN pc' = "Exited" /\ exitCode' = 1
     ELSE pc' = PcOf(StagesOf(entry)[1]) /\ exitCode' = exitCode
  /\ UNCHANGED << env, pair, geo, steps, maskPx, fs, trace, recovered, caught, lastGood, rb, de, url >>

\* convertToPngAndSquare of enhance.js: ensureAlpha, resize contain, png
ConvertToPngAndSquare ==
  /\ entry = "enhance"
  /\ pc = "Normalize"
  /\ trace' = Append(trace, "convertToPngAndSquare")
  /\ \E resolves \in LocalOutcomes :
       IF resolves /\ Decodable(fs["input"])
       THEN /\ fs' = [fs EXCEPT !["inputPng"] =
                        Art("png", CanvasSize, CanvasSize, 4,
                            "convertToPngAndSquare", "input", fs["input"].run)]
            /\ lastGood' = "inputPng"
            /\ Proceed(trace')
            /\ caught' = caught
       ELSE /\ Throw("convertToPngAndSquare")
            /\ UNCHANGED << fs, lastGood >>
  /\ UNCHANGED << env, pair, geo, steps, maskPx, recovered, rb, de, url >>

\* removeBackground with only the API key tested before the loop
RemoveBackgroundEnterKeyOnly ==
  /\ entry \in {"enhance", "removebg"}
  /\ pc = "RemoveBackground"
  /\ trace' = Append(trace, "removeBackground")
  /\ IF ~apiKey
     THEN /\ rb' = [rb EXCEPT !.result = "threw"]
          /\ Throw("removeBackground")
     ELSE /\ rb' = [rb EXCEPT !.attempt = 1]
          /\ pc' = "RbLoop"
          /\ UNCHANGED << caught, exitCode >>
  /\ UNCHANGED << env, pair, geo, steps, maskPx, fs, recovered, lastGood, de, url >>

\* removeBackground, lines 149-161: the two precondition tests
RemoveBackgroundEnter ==
  /\ entry \in {"enhance", "removebg"}
  /\ pc = "RemoveBackground"
  /\ trace' = Append(trace, "removeBackground")
  /\ IF ~Exists(fs["inputPng"]) \/ ~apiKey
     THEN /\ rb' = [rb EXCEPT !.result = "threw"]
          /\ Throw("removeBackground")
     ELSE /\ rb' = [rb EXCEPT !.attempt = 1]
          /\ pc' = "RbLoop"
          /\ UNCHANGED << caught, exitCode >>
  /\ UNCHANGED << env, pair, geo, steps, maskPx, fs, recovered, lastGood, de, url >>

\* What one pass of the loop of removeBackground can meet:
\*   "ok"          status 200 with a body sharp decodes; temp written,
\*                 converted, unlinked
\*   "rejected"    axios.post rejects (network error, timeout, non-2xx)
\*   "not200"      axios resolves with a 2xx status other than 200, or
\*                 without data: the if is skipped, nothing is thrown
\*   "undecodable" status 200, temp written, sharp rejects
\*   "unlinkfail"  temp written and converted, unlink rejects (a local fault)
RbOutcomes ==
  {"ok", "rejected", "not200", "undecodable"}
    \cup (IF localFaults THEN {"unlinkfail"} ELSE {})

\* RbLoopRuns with the loop test off by one
RbLoopRunsOffByOne(attempt) == attempt <= maxRetries + 1

\* for (let attempt = 1; attempt <= maxRetries; attempt++)
RbLoopRuns(attempt) == attempt <= maxRetries

\* the backoff wait taken after the last attempt too
RbWaitsAfterEveryAttempt(attempt) ==
  << [after |-> attempt, ms |-> Backoff(removeBgBackoffBase, attempt)] >>

\* if (attempt < maxRetries) { await setTimeout(1000 * attempt) }
RbWaits(attempt) ==
  IF attempt < maxRetries
  THEN << [after |-> attempt, ms |-> Backoff(removeBgBackoffBase, attempt)] >>
  ELSE << >>

NoBgPrimary == Art("png", CanvasSize, CanvasSize, 4, "removeBackground:primary", "inputPng", "cur")

\* the fallback file without its resize: the size of the file main was given
NoBgFallbackUnresized ==
  Art("png", fs["input"].w, fs["input"].h, 4, "removeBackground:fallback", "inputPng", "cur")

NoBgFallback == Art("png", CanvasSize, CanvasSize, 4, "removeBackground:fallback", "inputPng", "cur")

TempFile(fmt) == Art(fmt, 0, 0, 0, "removeBackground", "response", "cur")

\* removeBackground, lines 163-207: one pass of the retry loop
RemoveBackgroundAttempt ==
  /\ pc = "RbLoop"
  /\ RbLoopRuns(rb.attempt)
  /\ \E o \in RbOutcomes :
       /\ fs' = CASE o = "ok" ->
                       [fs EXCEPT !["noBg"] = NoBgPrimary, !["noBgTemp"] = Absent]
                  [] o = "undecodable" ->
                       [fs EXCEPT !["noBgTemp"] = TempFile("junk")]
                  [] o = "unlinkfail" ->
                       [fs EXCEPT !["noBg"] = NoBgPrimary, !["noBgTemp"] = TempFile("png")]
                  [] OTHER -> fs
       /\ lastGood' = IF o \in {"ok", "unlinkfail"} THEN "noBg" ELSE lastGood
       /\ IF o = "ok"
          THEN /\ rb' = [rb EXCEPT !.requests = @ + 1, !.result = "primary",
                                   !.ret = "outputPath"]
               /\ Proceed(trace)
          ELSE /\ rb' = [rb EXCEPT
                           !.requests = @ + 1,
                           !.attempt = @ + 1,
                           !.failed = Append(@, [attempt |-> rb.attempt,
                                                 thrown |-> o # "not200"]),
                           !.lastError = IF o = "not200" THEN @ ELSE o,
                           !.waits = IF o = "not200" THEN @ ELSE @ \o RbWaits(rb.attempt)]
               /\ UNCHANGED << pc, exitCode >>
  /\ UNCHANGED << env, pair, geo, steps, maskPx, trace, recovered, caught, de, url >>

\* RemoveBackgroundFallback without the fallback: the last error is thrown
\* once the loop has ended, as callDalleEdit does
RemoveBackgroundFallbackThrows ==
  /\ pc = "RbLoop"
  /\ ~RbLoopRuns(rb.attempt)
  /\ rb' = [rb EXCEPT !.result = "threw"]
  /\ Throw("removeBackground")
  /\ UNCHANGED << env, pair, geo, steps, maskPx, fs, trace, recovered, lastGood, de, url >>

\* removeBackground, lines 209-226: the loop has ended without a return
RemoveBackgroundFallback ==
  /\ pc = "RbLoop"
  /\ ~RbLoopRuns(rb.attempt)
  /\ \E resolves \in LocalOutcomes :
       IF resolves /\ Decodable(fs["inputPng"])
       THEN /\ fs' = [fs EXCEPT !["noBg"] = NoBgFallback]
            /\ lastGood' = "noBg"
            /\ rb' = [rb EXCEPT !.result = "fallback", !.ret = "outputPath"]
            /\ Proceed(trace)
            /\ caught' = caught
       ELSE /\ rb' = [rb EXCEPT !.result = "threw"]
            /\ Throw("removeBackground")
            /\ UNCHANGED << fs, lastGood >>
  /\ UNCHANGED << env, pair, geo, steps, maskPx, trace, recovered, de, url >>

\* repositionProduct: crop, fit, composite on a white 1024x1024 RGBA canvas
RepositionProduct ==
  /\ pc = "Reposition"
  /\ trace' = Append(trace, "repositionProduct")
  /\ \E resolves \in LocalOutcomes, img \in ImagesAt(entry, fs["noBg"]) :
       IF /\ resolves
          /\ Decodable(fs["noBg"])
          /\ ExtractOk(img, RepositionGeometry(img).crop)
       THEN /\ geo' = RepositionGeometry(img)
            /\ fs' = [fs EXCEPT !["repositioned"] =
                        Art("png", CanvasSize, CanvasSize, 4,
                            "repositionProduct", "noBg", fs["noBg"].run)]
            /\ lastGood' = "repositioned"
            /\ Proceed(trace')
            /\ caught' = caught
       ELSE /\ Throw("repositionProduct")
            /\ geo' = IF resolves /\ Decodable(fs["noBg"])
                      THEN RepositionGeometry(img) ELSE geo
            /\ UNCHANGED << fs, lastGood >>
  /\ UNCHANGED << env, pair, steps, maskPx, recovered, rb, de, url >>

\* enhanceImageWithSharp(inputPath, outputPath): flatten on white, modulate,
\* sharpen, linear, composite the shadow, png
EnhancedFrom(path, f) ==
  Art("png", f.w, f.h, 3, "enhanceImageWithSharp", path, f.run)

\* main, line 655: step 4 of the try block
EnhanceImageWithSharp ==
  /\ pc = "PostProcess"
  /\ trace' = Append(trace, "enhanceImageWithSharp")
  /\ \E resolves \in LocalOutcomes :
       IF resolves /\ Decodable(fs["repositioned"])
       THEN /\ fs' = [fs EXCEPT !["output"] =
                        EnhancedFrom("repositioned", fs["repositioned"])]
            /\ steps' = EnhanceOps
            /\ lastGood' = "output"
            /\ Proceed(trace')
            /\ caught' = caught
       ELSE /\ Throw("enhanceImageWithSharp")
            /\ UNCHANGED << fs, lastGood, steps >>
  /\ UNCHANGED << env, pair, geo, maskPx, recovered, rb, de, url >>

\* if (fs.existsSync(repositionedPath)) in the catch handler of main
RecoveryRuns(files) == Exists(files["repositioned"])

\* the catch handler with the exit status taken from the recovery run
MainCatchEnhanceExitsByRecovery ==
  /\ entry = "enhance"
  /\ pc = "Catch"
  /\ IF RecoveryRuns(fs)
     THEN \E resolves \in LocalOutcomes :
            IF resolves /\ Decodable(fs["repositioned"])
            THEN /\ fs' = [fs EXCEPT !["output"] =
                             EnhancedFrom("repositioned", fs["repositioned"])]
                 /\ steps' = EnhanceOps
                 /\ recovered' = "ok"
            ELSE /\ UNCHANGED << fs, steps >>
                 /\ recovered' = "failed"
     ELSE /\ UNCHANGED << fs, steps >>
          /\ recovered' = "skipped"
  /\ pc' = "Failed"
  /\ exitCode' = IF recovered' = "ok" THEN 0 ELSE 1
  /\ UNCHANGED << env, pair, geo, maskPx, trace, caught, lastGood, rb, de, url >>

\* main of enhance.js, lines 659-674: the catch handler with its nested
\* try (the fallback run of enhanceImageWithSharp) and process.exit(1)
MainCatchEnhance ==
  /\ entry = "enhance"
  /\ pc = "Catch"
  /\ IF RecoveryRuns(fs)
     THEN \E resolves \in LocalOutcomes :
            IF resolves /\ Decodable(fs["repositioned"])
            THEN /\ fs' = [fs EXCEPT !["output"] =
                             EnhancedFrom("repositioned", fs["repositioned"])]
                 /\ steps' = EnhanceOps
                 /\ recovered' = "ok"
            ELSE /\ UNCHANGED << fs, steps >>
                 /\ recovered' = "failed"
     ELSE /\ UNCHANGED << fs, steps >>
          /\ recovered' = "skipped"
  /\ pc' = "Failed"
  /\ exitCode' = 1
  /\ UNCHANGED << env, pair, geo, maskPx, trace, caught, lastGood, rb, de, url >>

(* ------------------------------------------------------------------ *)
(* main of part_000                                                     *)
(* ------------------------------------------------------------------ *)

\* convertToPngAndSquare of part_000: resize contain on white, png; no
\* ensureAlpha, so the channel count of the input is kept
ConvertToPngAndSquarePart000 ==
  /\ entry = "part000"
  /\ pc = "Normalize"
  /\ trace' = Append(trace, "convertToPngAndSquare")
  /\ \E resolves \in LocalOutcomes :
       IF resolves /\ Decodable(fs["input"])
       THEN /\ fs' = [fs EXCEPT !["inputPng"] =
                        Art("png", CanvasSize, CanvasSize, fs["input"].ch,
                            "convertToPngAndSquare", "input", fs["input"].run)]
            /\ lastGood' = "inputPng"
            /\ Proceed(trace')
            /\ caught' = caught
       ELSE /\ Throw("convertToPngAndSquare")
            /\ UNCHANGED << fs, lastGood >>
  /\ UNCHANGED << env, pair, geo, steps, maskPx, recovered, rb, de, url >>

\* createWhiteMask: a white opaque 1024x1024 four-channel png
CreateWhiteMask ==
  /\ pc = "SynthesizeMask"
  /\ trace' = Append(trace, "createWhiteMask")
  /\ \E resolves \in LocalOutcomes, alphas \in SourceAlphas(fs["inputPng"]) :
       IF resolves
       THEN /\ fs' = [fs EXCEPT !["mask"] =
                        Art("png", CanvasSize, CanvasSize, 4, "createWhiteMask", "none", "cur")]
            /\ maskPx' = MaskRecord("createWhiteMask", 4, fs["inputPng"], alphas,
                                    [p \in SamplePixels |-> WhiteMaskAt(p)])
            /\ lastGood' = "mask"
            /\ Proceed(trace')
            /\ caught' = caught
       ELSE /\ Throw("createWhiteMask")
            /\ UNCHANGED << fs, lastGood, maskPx >>
  /\ UNCHANGED << env, pair, geo, steps, recovered, rb, de, url >>

\* one call of openai.images.edit: what is uploaded
Request(files, isz, msz) ==
  [image |-> files["inputPng"], mask |-> files["mask"], imageSize |-> isz, maskSize |-> msz]

\* callDalleEdit of part_000: read both files, one request, no retry.
\*   "url"      the response carries data[0].url
\*   "nourl"    data[0] has no url: undefined is returned
\*   "nodata"   the response has no data[0]: TypeError
\*   "rejected" the request rejects
CallDalleEditPart000 ==
  /\ pc = "Inpaint"
  /\ trace' = Append(trace, "callDalleEdit")
  /\ IF ~Exists(fs["inputPng"]) \/ ~Exists(fs["mask"])
     THEN /\ de' = [de EXCEPT !.result = "threw", !.error = "NotFound"]
          /\ url' = url
          /\ Throw("callDalleEdit")
     ELSE \E isz \in FileSizes, msz \in FileSizes, o \in {"url", "nourl", "nodata", "rejected"} :
            /\ de' = [de EXCEPT
                        !.attempt = 1,
                        !.requests = @ + 1,
                        !.imageSize = isz,
                        !.maskSize = msz,
                        !.sent = Append(@, Request(fs, isz, msz)),
                        !.failed = IF o \in {"nodata", "rejected"} THEN Append(@, 1) ELSE @,
                        !.result = IF o \in {"url", "nourl"} THEN "returned" ELSE "threw",
                        !.error = IF o \in {"url", "nourl"} THEN "none" ELSE "ServiceError"]
            /\ IF o \in {"url", "nourl"}
               THEN /\ url' = IF o = "url" THEN "url" ELSE "undefined"
                    /\ Proceed(trace')
                    /\ caught' = caught
               ELSE /\ url' = url
                    /\ Throw("callDalleEdit")
  /\ UNCHANGED << env, pair, geo, steps, maskPx, fs, recovered, lastGood, rb >>

\* downloadImage: axios.get(url), which rejects for an undefined url or a
\* failed download, then writeFile(outputPath)
DownloadImage ==
  /\ pc = "Download"
  /\ trace' = Append(trace, "downloadImage")
  /\ \E fetched \in BOOLEAN, resolves \in LocalOutcomes :
       IF fetched /\ resolves /\ url = "url"
       THEN /\ fs' = [fs EXCEPT !["output"] =
                        Art("png", CanvasSize, CanvasSize, 4, "downloadImage", "url", "cur")]
            /\ lastGood' = "output"
            /\ Proceed(trace')
            /\ caught' = caught
       ELSE /\ Throw("downloadImage")
            /\ UNCHANGED << fs, lastGood >>
  /\ UNCHANGED << env, pair, geo, steps, maskPx, recovered, rb, de, url >>

\* main of part_000, lines 219-222: log the error, process.exit(1)
MainCatchPart000 ==
  /\ entry = "part000"
  /\ pc = "Catch"
  /\ pc' = "Failed"
  /\ exitCode' = 1
  /\ UNCHANGED << env, pair, geo, steps, maskPx, fs, trace, recovered, caught, lastGood, rb, de, url >>

(* ------------------------------------------------------------------ *)
(* callDalleEdit of enhance.js                                          *)
(* ------------------------------------------------------------------ *)

\* TooLarge testing the image alone
TooLargeImageOnly(isz, msz) == isz > DalleFileLimit

\* if (imageStats.size > 4 * 1024 * 1024 || maskStats.size > 4 * 1024 * 1024)
TooLarge(isz, msz) == isz > DalleFileLimit \/ msz > DalleFileLimit

\* The tests callDalleEdit makes before its retry loop, in program order;
\* "pass" when none of them throws
DalleValidate(bound, image, mask, isz, msz) ==
  IF ~bound THEN "ReferenceError"
  ELSE IF ~Exists(image) \/ ~Exists(mask) THEN "NotFound"
  ELSE IF TooLarge(isz, msz) THEN "TooLarge"
  ELSE IF ~HasPngSignature(image) \/ ~HasPngSignature(mask) THEN "NotPng"
  ELSE "pass"

\* callDalleEdit, lines 432-472: new OpenAI, existence, size and signature
CallDalleEditEnter ==
  /\ pc = "DeEnter"
  /\ \E isz \in FileSizes, msz \in FileSizes :
       LET v == DalleValidate(openaiBound, fs["inputPng"], fs["mask"], isz, msz)
           statted == openaiBound /\ Exists(fs["inputPng"]) /\ Exists(fs["mask"])
       IN  /\ de' = [de EXCEPT
                       !.imageSize = IF statted THEN isz ELSE 0,
                       !.maskSize = IF statted THEN msz ELSE 0,
                       !.attempt = IF v = "pass" THEN 1 ELSE 0,
                       !.result = IF v = "pass" THEN "none" ELSE "threw",
                       !.error = IF v = "pass" THEN "none" ELSE v]
           /\ pc' = IF v = "pass" THEN "DeLoop" ELSE "DeThrew"
  /\ UNCHANGED << env, pair, geo, steps, maskPx, fs, trace, recovered, caught, lastGood, rb, url, exitCode >>

\* for (let attempt = 1; attempt <= maxRetries; attempt++)
DeLoopRuns(attempt) == attempt <= maxRetries

\* if (attempt < maxRetries) { await setTimeout(2000 * attempt) }
DeWaits(attempt) ==
  IF attempt < maxRetries
  THEN << [after |-> attempt, ms |-> Backoff(dalleBackoffBase, attempt)] >>
  ELSE << >>

\* callDalleEdit, lines 474-521: one pass of the retry loop.
\*   "url"       the response carries data[0].url: it is returned
\*   "badformat" no data, no data[0] or no url: Error thrown and caught
\*   "rejected"  openai.images.edit rejects
CallDalleEditAttempt ==
  /\ pc = "DeLoop"
  /\ DeLoopRuns(de.attempt)
  /\ \E o \in {"url", "badformat", "rejected"} :
       IF o = "url"
       THEN /\ de' = [de EXCEPT
                        !.requests = @ + 1,
                        !.sent = Append(@, Request(fs, de.imageSize, de.maskSize)),
                        !.result = "returned"]
            /\ url' = "url"
            /\ pc' = "DeReturned"
       ELSE /\ de' = [de EXCEPT
                        !.requests = @ + 1,
                        !.sent = Append(@, Request(fs, de.imageSize, de.maskSize)),
                        !.attempt = @ + 1,
                        !.failed = Append(@, de.attempt),
                        !.lastError = o,
                        !.waits = @ \o DeWaits(de.attempt)]
            /\ UNCHANGED << pc, url >>
  /\ UNCHANGED << env, pair, geo, steps, maskPx, fs, trace, recovered, caught, lastGood, rb, exitCode >>

\* callDalleEdit, lines 523-528: throw lastError || new Error(...)
CallDalleEditExhausted ==
  /\ pc = "DeLoop"
  /\ ~DeLoopRuns(de.attempt)
  /\ de' = [de EXCEPT !.result = "threw", !.error = "ServiceError"]
  /\ pc' = "DeThrew"
  /\ UNCHANGED << env, pair, geo, steps, maskPx, fs, trace, recovered, caught, lastGood, rb, url, exitCode >>

(* ------------------------------------------------------------------ *)
(* Specification                                                        *)
(* ------------------------------------------------------------------ *)

Next ==
  \/ MainStart
  \/ ConvertToPngAndSquare
  \/ RemoveBackgroundEnter
  \/ RemoveBackgroundAttempt
  \/ RemoveBackgroundFallback
  \/ RepositionProduct
  \/ EnhanceImageWithSharp
  \/ MainCatchEnhance
  \/ ConvertToPngAndSquarePart000
  \/ CreateWhiteMask
  \/ CallDalleEditPart000
  \/ DownloadImage
  \/ MainCatchPart000
  \/ CallDalleEditEnter
  \/ CallDalleEditAttempt
  \/ CallDalleEditExhausted

Spec == Init /\ [][Next]_vars

\* Every awaited call settles (axios.post has timeout: 30000, the timers
\* fire, the local sharp/fs calls resolve or reject) and node then runs the
\* continuation: a step that can be taken is taken
FairSpec == Spec /\ WF_vars(Next)

(* ------------------------------------------------------------------ *)
(* Functions of enhance.js that main never calls                        *)
(* ------------------------------------------------------------------ *)

\* createBackgroundMask(inputPngPath, maskPath): a three-channel 1024x1024
\* png drawn from the fixed svg; inputPngPath is only logged
CreateBackgroundMask ==
  /\ entry = "mask"
  /\ pc = "MaskUnit"
  /\ \E resolves \in LocalOutcomes, alphas \in SourceAlphas(fs["inputPng"]) :
       IF resolves
       THEN /\ fs' = [fs EXCEPT !["mask"] =
                        Art("png", CanvasSize, CanvasSize, 3,
                            "createBackgroundMask", "none", "cur")]
            /\ maskPx' = MaskRecord("createBackgroundMask", 3, fs["inputPng"], alphas,
                                    [p \in SamplePixels |-> BackgroundMaskAt(p)])
            /\ lastGood' = "mask"
            /\ pc' = "Returned"
            /\ caught' = caught
       ELSE /\ pc' = "Threw"
            /\ caught' = "createBackgroundMask"
            /\ UNCHANGED << fs, lastGood, maskPx >>
  /\ UNCHANGED << env, pair, geo, steps, trace, recovered, rb, de, url, exitCode >>

\* postProcessImage(inputPath, outputPath): flatten, modulate, sharpen, png
PostProcessImage ==
  /\ entry = "postprocess"
  /\ pc = "PostProcessUnit"
  /\ \E resolves \in LocalOutcomes :
       IF resolves /\ Decodable(fs["repositioned"])
       THEN /\ fs' = [fs EXCEPT !["output"] =
                        Art("png", fs["repositioned"].w, fs["repositioned"].h, 3,
                            "postProcessImage", "repositioned", fs["repositioned"].run)]
            /\ steps' = PostProcessOps
            /\ lastGood' = "output"
            /\ pc' = "Returned"
            /\ caught' = caught
       ELSE /\ pc' = "Threw"
            /\ caught' = "postProcessImage"
            /\ UNCHANGED << fs, lastGood, steps >>
  /\ UNCHANGED << env, pair, geo, maskPx, trace, recovered, rb, de, url, exitCode >>

NextUnits ==
  \/ RemoveBackgroundEnter
  \/ RemoveBackgroundAttempt
  \/ RemoveBackgroundFallback
  \/ RepositionProduct
  \/ CreateBackgroundMask
  \/ PostProcessImage

SpecUnits == InitUnits /\ [][NextUnits]_vars

(* ------------------------------------------------------------------ *)
(* Two invocations of main of enhance.js on one ./output directory      *)
(* ------------------------------------------------------------------ *)

\* the invocation that last wrote the path, or 0
WriterOf(path) ==
  IF \E d \in disk : d[1] = path THEN (CHOOSE d \in disk : d[1] = path)[2] ELSE 0

\* the disk after invocation i has written the paths
DiskAfter(i, paths) ==
  { d \in disk : d[1] \notin paths } \cup { << q, i >> : q \in paths }

\* the paths among those touched that another invocation wrote last
Foreign(i, paths) == { q \in paths : WriterOf(q) \notin {0, i} }

\* invocation i reads the paths of reads, writes those of writes and goes to
\* the position next
PairStep(i, reads, writes, next) ==
  /\ inv' = [inv EXCEPT ![i].pc = next,
                        ![i].written = @ \cup writes,
                        ![i].foreign = @ \cup Foreign(i, reads \cup writes)]
  /\ disk' = DiskAfter(i, writes)

InitPair ==
  /\ entry = "pair"
  /\ openaiBound = FALSE
  /\ argvGiven = TRUE
  /\ apiKey = TRUE
  /\ localFaults = TRUE
  /\ pc = "Idle"
  /\ fs = [p \in Paths |-> Absent]
  /\ trace = << >>
  /\ recovered = "no"
  /\ caught = "none"
  /\ lastGood = "none"
  /\ rb = RbInit
  /\ de = DeInit
  /\ url = "none"
  /\ exitCode = -1
  /\ geo = GeoNone
  /\ steps = << >>
  /\ maskPx = NoMask
  /\ \E a \in PairInputs, b \in PairInputs :
       inv = [i \in Invocations |->
                [input |-> IF i = 1 THEN a ELSE b, pc |-> "Normalize",
                 written |-> {}, foreign |-> {}]]
  /\ disk = {}

\* what one invocation leaves alone
solo ==
  << entry, openaiBound, argvGiven, apiKey, localFaults, pc, fs, trace, recovered, caught,
     lastGood, rb, de, url, exitCode, geo, steps, maskPx >>

\* await convertToPngAndSquare(inputPath, inputPngPath)
PairConvert(i) ==
  /\ inv[i].pc = "Normalize"
  /\ \E resolves \in BOOLEAN :
       IF resolves
       THEN PairStep(i, {}, {InputPngPath(inv[i].input)}, "RemoveBackground")
       ELSE PairStep(i, {}, {}, "Catch")
  /\ UNCHANGED solo

\* await removeBackground(inputPngPath, noBgPath): an attempt that got a
\* response writes tempPath before sharp reads it; the primary and the
\* fallback path write outputPath
PairRemoveBackground(i) ==
  /\ inv[i].pc = "RemoveBackground"
  /\ \E outcome \in {"primary", "fallback", "threw"}, wroteTemp \in BOOLEAN :
       LET out == NoBgPath(inv[i].input)
           temp == IF wroteTemp \/ outcome = "primary" THEN {TempPath(out)} ELSE {}
       IN  IF outcome = "threw"
           THEN PairStep(i, {InputPngPath(inv[i].input)}, temp, "Catch")
           ELSE PairStep(i, {InputPngPath(inv[i].input)}, temp \cup {out}, "Reposition")
  /\ UNCHANGED solo

\* await repositionProduct(noBgPath, repositionedPath)
PairReposition(i) ==
  /\ inv[i].pc = "Reposition"
  /\ \E resolves \in BOOLEAN :
       IF resolves
       THEN PairStep(i, {NoBgPath(inv[i].input)},
                     {RepositionedPath(inv[i].input)}, "PostProcess")
       ELSE PairStep(i, {NoBgPath(inv[i].input)}, {}, "Catch")
  /\ UNCHANGED solo

\* await enhanceImageWithSharp(repositionedPath, outputPath)
PairEnhance(i) ==
  /\ inv[i].pc = "PostProcess"
  /\ \E resolves \in BOOLEAN :
       IF resolves
       THEN PairStep(i, {RepositionedPath(inv[i].input)},
                     {OutputPath(inv[i].input)}, "Done")
       ELSE PairStep(i, {RepositionedPath(inv[i].input)}, {}, "Catch")
  /\ UNCHANGED solo

\* the catch handler of main: the recovery run when repositionedPath exists
PairCatch(i) ==
  /\ inv[i].pc = "Catch"
  /\ IF WriterOf(RepositionedPath(inv[i].input)) # 0
     THEN \E resolves \in BOOLEAN :
            IF resolves
            THEN PairStep(i, {RepositionedPath(inv[i].input)},
                          {OutputPath(inv[i].input)}, "Failed")
            ELSE PairStep(i, {RepositionedPath(inv[i].input)}, {}, "Failed")
     ELSE PairStep(i, {}, {}, "Failed")
  /\ UNCHANGED solo

NextPair ==
  \/ \E i \in Invocations : PairConvert(i)
  \/ \E i \in Invocations : PairRemoveBackground(i)
  \/ \E i \in Invocations : PairReposition(i)
  \/ \E i \in Invocations : PairEnhance(i)
  \/ \E i \in Invocations : PairCatch(i)

SpecPair == InitPair /\ [][NextPair]_vars

(* ------------------------------------------------------------------ *)
(* Claims                                                               *)
(* ------------------------------------------------------------------ *)

IsPrefix(a, b) == Len(a) <= Len(b) /\ \A i \in 1..Len(a) : a[i] = b[i]

Count(x, seq) == Cardinality({i \in 1..Len(seq) : seq[i] = x})

\* the stages of the orchestrator's state machine entered so far
StageTrace == [i \in 1..Len(trace) |-> PcOf(trace[i])]

SixStages ==
  << "Normalize", "RemoveBackground", "Reposition", "SynthesizeMask", "Inpaint",
     "PostProcess" >>

IndexIn(x, seq) == CHOOSE i \in 1..Len(seq) : seq[i] = x

InSixStages(x) == \E i \in 1..Len(SixStages) : SixStages[i] = x

\* C1 as stated: the stages are entered in the order Normalize,
\* RemoveBackground, Reposition, SynthesizeMask, Inpaint, PostProcess, and a
\* run that reaches Done has executed each of the six exactly once.
C1_SixStagesOnce ==
  /\ \A i, j \in 1..Len(StageTrace) :
       (i < j /\ InSixStages(StageTrace[i]) /\ InSixStages(StageTrace[j]))
         => IndexIn(StageTrace[i], SixStages) < IndexIn(StageTrace[j], SixStages)
  /\ pc = "Done" => \A k \in 1..Len(SixStages) : Count(SixStages[k], StageTrace) = 1

C1_EnhanceOrder == << "Normalize", "RemoveBackground", "Reposition", "PostProcess" >>

C1_Part000Order == << "Normalize", "SynthesizeMask", "Inpaint", "Download" >>

C1_Order == IF entry = "enhance" THEN C1_EnhanceOrder ELSE C1_Part000Order

\* the positions inside a stage of main, and the stage each belongs to
C1_StageAt(p) == IF p = "RbLoop" THEN "RemoveBackground" ELSE p

C1_InStage(p) ==
  p \in {"Normalize", "RemoveBackground", "RbLoop", "Reposition", "SynthesizeMask",
         "Inpaint", "Download", "PostProcess"}

C1_Follows(order, a, b) ==
  \E i \in 1..Len(order) :
    /\ order[i] = a
    /\ b = (IF i < Len(order) THEN order[i + 1] ELSE "Done")

\* C1 amended: the try block of main enters its stages in program order,
\* Normalize, RemoveBackground, Reposition, PostProcess in enhance.js and
\* Normalize, SynthesizeMask, Inpaint, Download in part_000, each at most
\* once; a run that reaches Done has entered every stage of its program
\* exactly once; from a stage control goes to the next stage (Done after the
\* last) or to the catch handler, and from the catch handler only to Failed.
C1_StagesInProgramOrder ==
  /\ [](entry \in {"enhance", "part000"} =>
          /\ IsPrefix(StageTrace, C1_Order)
          /\ (pc = "Done" => StageTrace = C1_Order))
  /\ [][ /\ (C1_InStage(pc) /\ entry \in {"enhance", "part000"}) =>
              \/ C1_StageAt(pc') = C1_StageAt(pc)
              \/ C1_Follows(C1_Order, C1_StageAt(pc), pc')
              \/ pc' = "Catch"
         /\ pc = "Catch" => pc' = "Failed" ]_vars

\* C1 witness: main of enhance.js has reached Done through its four stages
C1_Witness == entry = "enhance" /\ pc = "Done" /\ Len(trace) = 4 /\ exitCode = 0

\* C2: an adapter call issues at most 3 requests to its service, whatever
\* the outcomes of the attempts, and issues no request after the attempt
\* that succeeded (removeBackground returned from its primary path,
\* callDalleEdit returned the url).
C2_AtMostThreeRequests ==
  /\ [](rb.requests <= 3 /\ de.requests <= 3)
  /\ [][ /\ rb.result = "primary" => rb'.requests = rb.requests
         /\ de.result = "returned" => de'.requests = de.requests ]_vars

\* C2 witness: removeBackground succeeded on its third request and main has
\* gone on past it
C2_Witness ==
  /\ rb.result = "primary"
  /\ rb.requests = 3
  /\ Len(rb.failed) = 2
  /\ pc = "Done"

\* the waits the claimed policy prescribes for a sequence of failed
\* attempts: base * k after each failed attempt k < 3
C3_Waits(attempts, base) ==
  LET early == SelectSeq(attempts, LAMBDA k : k < 3)
  IN  [i \in 1..Len(early) |-> [after |-> early[i], ms |-> base * early[i]]]

C3_RbFailed == [i \in 1..Len(rb.failed) |-> rb.failed[i].attempt]

C3_IsThrown(f) == f.thrown

C3_RbThrown ==
  LET thrown == SelectSeq(rb.failed, C3_IsThrown)
  IN  [i \in 1..Len(thrown) |-> thrown[i].attempt]

\* C3 as stated: in both retrying adapters every failed attempt k < 3,
\* however it failed, is followed by a wait of 1000 * k ms, the same in
\* removeBackground and callDalleEdit, and the third is followed by none.
C3_OneSecondTimesAttempt ==
  /\ rb.waits = C3_Waits(C3_RbFailed, 1000)
  /\ entry = "calldalle" => de.waits = C3_Waits(de.failed, 1000)

\* C3 amended: after a failed attempt k < 3 that ended in a thrown error,
\* removeBackground waits 1000 * k ms and callDalleEdit of enhance.js waits
\* 2000 * k ms; a removeBackground attempt whose response is 2xx but not 200
\* (or has no data) throws nothing and is followed by no wait; no adapter
\* waits after its third attempt; callDalleEdit of part_000 makes one attempt
\* and never waits.
C3_BackoffPerAdapter ==
  /\ rb.waits = C3_Waits(C3_RbThrown, 1000)
  /\ entry = "calldalle" => de.waits = C3_Waits(de.failed, 2000)
  /\ entry = "part000" => (de.waits = << >> /\ de.attempt <= 1)

\* C3 witness: removeBackground has failed three times, one of them without
\* a throw, and has waited once
C3_Witness ==
  /\ Len(rb.failed) = 3
  /\ Len(rb.waits) = 1
  /\ \E i \in 1..2 : ~rb.failed[i].thrown

C5_Outcome ==
  [ret |-> rb.ret, exit |-> exitCode, caught |-> caught, output |-> fs["output"]]

\* the outcome of a run in which removeBackground succeeded on its primary path
C5_PrimaryOutcome ==
  [ret |-> "outputPath", exit |-> 0, caught |-> "none",
   output |-> Art("png", 1024, 1024, 3, "enhanceImageWithSharp", "repositioned", "cur")]

\* C5: when removeBackground has failed 3 times and the run reaches Done, the
\* outcome handed to the caller differs from that of a primary-path success
\* (it records the degraded stage), and the final image exists.
C5_DegradedReported ==
  (entry = "enhance" /\ pc = "Done" /\ rb.result = "fallback") =>
     /\ C5_Outcome # C5_PrimaryOutcome
     /\ Exists(fs["output"]) /\ fs["output"].run = "cur"

\* C6: when the inpaint adapter has failed for good (main caught the error of
\* callDalleEdit), the run ends with a final output file written by this
\* invocation from the artifact that preceded the inpaint call.
C6_InpaintFailureKeepsArtifact ==
  (pc = "Failed" /\ caught = "callDalleEdit") =>
     /\ de.result = "threw"
     /\ exitCode = 1
     /\ Exists(fs["output"])
     /\ fs["output"].run = "cur"
     /\ fs["output"].from \in {"inputPng", "repositioned"}

\* C7: when a stage fails after an earlier stage of the same invocation has
\* written an artifact, the try block runs no later stage and the run ends
\* with the error (exit 1) and a final output file written by this invocation
\* from the latest artifact written before the failure.
C7_BestEffortOutput ==
  (pc = "Failed" /\ lastGood # "none") =>
     /\ trace[Len(trace)] = caught
     /\ exitCode = 1
     /\ Exists(fs["output"])
     /\ fs["output"].run = "cur"
     /\ fs["output"].from = lastGood

\* calls of a stage function in this invocation, the recovery block included
C8_Invocations(fn) ==
  Count(fn, trace)
    + (IF fn = "enhanceImageWithSharp" /\ recovered \in {"ok", "failed"} THEN 1 ELSE 0)

\* C8: on every path through main of enhance.js, the recovery path included,
\* each of the four stage functions is called at most once.
C8_EachStageAtMostOnce ==
  entry = "enhance" =>
    \A fn \in {"convertToPngAndSquare", "removeBackground", "repositionProduct",
               "enhanceImageWithSharp"} : C8_Invocations(fn) <= 1

C9_Valid(f) == f.fmt = "png" /\ f.w = 1024 /\ f.h = 1024 /\ f.ch = 4

\* C9: callDalleEdit sends no request unless image and mask are both
\* 1024x1024, PNG and 4-channel; a call made with any mismatch has ended in
\* an error without a request.
C9_ValidatedBeforeRequest ==
  /\ \A i \in 1..Len(de.sent) : C9_Valid(de.sent[i].image) /\ C9_Valid(de.sent[i].mask)
  /\ (pc \in {"DeReturned", "DeThrew"}
        /\ ~(C9_Valid(fs["inputPng"]) /\ C9_Valid(fs["mask"])))
       => (de.result = "threw" /\ de.requests = 0)

\* C10 as stated: no request is sent whose image and mask sizes add up to
\* more than 4 MiB.
C10_CombinedCeiling ==
  \A i \in 1..Len(de.sent) :
    de.sent[i].imageSize + de.sent[i].maskSize <= 4 * 1024 * 1024

\* C10 amended: callDalleEdit of enhance.js enforces the ceiling per file:
\* once it has read the two sizes, if either exceeds 4 MiB the call ends with
\* the too-large error and no request is sent, and every request it sends
\* carries two files of at most 4 MiB each.
C10_PerFileCeiling ==
  entry = "calldalle" =>
    /\ \A i \in 1..Len(de.sent) :
         /\ de.sent[i].imageSize <= 4 * 1024 * 1024
         /\ de.sent[i].maskSize <= 4 * 1024 * 1024
    /\ (de.imageSize > 4 * 1024 * 1024 \/ de.maskSize > 4 * 1024 * 1024)
         => (pc = "DeThrew" /\ de.error = "TooLarge" /\ de.requests = 0)

\* C10 witness: a mask over the limit beside an image under it was refused
C10_Witness ==
  /\ entry = "calldalle"
  /\ de.error = "TooLarge"
  /\ de.imageSize <= 4 * 1024 * 1024
  /\ de.maskSize > 4 * 1024 * 1024
  /\ de.requests = 0

\* C11: two invocations running at once on distinct input files write
\* disjoint sets of paths, and neither reads or overwrites a path the other
\* one wrote
C11_DisjointWrites ==
  inv[1].input # inv[2].input =>
    /\ inv[1].written \cap inv[2].written = {}
    /\ inv[1].foreign = {}
    /\ inv[2].foreign = {}

\* C12: the final output an invocation writes, on the recovery path too, is
\* computed from files this invocation wrote, never from a file an earlier
\* invocation left in ./output
C12_NoCrossInvocationState ==
  (entry = "enhance" /\ (lastGood = "output" \/ recovered = "ok")) =>
    fs["output"].run = "cur"

\* the files the stages after Normalize write
C13_LaterArtifacts == {"noBg", "repositioned", "output"}

\* C13: once convertToPngAndSquare has succeeded, the file written by every
\* later stage (removeBackground on its primary and its fallback path,
\* repositionProduct, enhanceImageWithSharp) is 1024x1024, whatever the
\* size of the input and whatever the remove.bg requests did
C13_CanonicalSize ==
  (entry = "enhance" /\ fs["inputPng"].by = "convertToPngAndSquare") =>
    /\ fs["inputPng"].w = 1024 /\ fs["inputPng"].h = 1024
    /\ \A p \in C13_LaterArtifacts :
         Exists(fs[p]) => (fs[p].w = 1024 /\ fs[p].h = 1024)

\* C13 witness: a 400x600 input went through the fallback path of
\* removeBackground and through the two later stages
C13_Witness ==
  /\ entry = "enhance" /\ pc = "Done"
  /\ fs["input"].w = 400 /\ fs["input"].h = 600
  /\ fs["noBg"].by = "removeBackground:fallback"
  /\ fs["repositioned"].by = "repositionProduct" /\ fs["repositioned"].run = "cur"
  /\ fs["output"].by = "enhanceImageWithSharp" /\ fs["output"].run = "cur"

\* the smallest box around the listed pixels of a raster that lists some
C14_Extent(img) ==
  [minX |-> Min({ p[1] : p \in img.fg }), maxX |-> Max({ p[1] : p \in img.fg }),
   minY |-> Min({ p[2] : p \in img.fg }), maxY |-> Max({ p[2] : p \in img.fg })]

\* the raster is one filled rectangle of alpha 255 on alpha 0
C14_IsOpaqueRect(img) ==
  /\ img.fg # {}
  /\ Cardinality(img.fg) = (C14_Extent(img).maxX - C14_Extent(img).minX + 1)
                             * (C14_Extent(img).maxY - C14_Extent(img).minY + 1)
  /\ img.fg = Rect(C14_Extent(img).minX, C14_Extent(img).minY,
                   C14_Extent(img).maxX, C14_Extent(img).maxY, 255)

\* C14: on a raster that is one fully opaque axis-aligned rectangle on a
\* fully transparent remainder the scan returns exactly that rectangle,
\* the same box under every alpha threshold strictly between 0 and 254
C14_RectangleBox ==
  (geo.done /\ C14_IsOpaqueRect(geo.img)) =>
    /\ geo.found
    /\ geo.box = C14_Extent(geo.img)
    /\ \A t \in 1..253 : ScanBox(geo.img, t) = C14_Extent(geo.img)

\* C14 witness: repositionProduct has scanned a filled rectangle of more
\* than one row and more than one column
C14_Witness ==
  /\ entry = "reposition"
  /\ geo.done /\ C14_IsOpaqueRect(geo.img)
  /\ geo.box.maxX > geo.box.minX /\ geo.box.maxY > geo.box.minY
  /\ Cardinality(geo.img.fg) > 4

\* C15: when no pixel has an alpha above the threshold the scan ends with
\* its initial values (nothing found) and the crop rectangle is the whole
\* image: left 0, top 0, full width, full height
C15_EmptyScanWholeCanvas ==
  (geo.done /\ Foreground(geo.img, alphaThreshold) = {}) =>
    /\ ScanBox(geo.img, alphaThreshold) =
         [minX |-> geo.img.w, maxX |-> -1, minY |-> geo.img.h, maxY |-> -1]
    /\ ~geo.found
    /\ geo.box = [minX |-> 0, maxX |-> geo.img.w - 1, minY |-> 0, maxY |-> geo.img.h - 1]
    /\ geo.crop = [left |-> 0, top |-> 0, width |-> geo.img.w, height |-> geo.img.h]

\* C15 witness: repositionProduct has scanned a 1024x1024 raster whose only
\* pixels of non-zero alpha are at or below the threshold
C15_Witness ==
  /\ geo.done
  /\ geo.img.w = 1024 /\ geo.img.h = 1024
  /\ geo.img.fg # {}
  /\ \A p \in geo.img.fg : p[3] <= alphaThreshold
  /\ geo.crop.width = 1024

\* C16: for a box the scan found and padding p, the crop rectangle is the box
\* grown by p on each side and clamped to the image: left = max(0, minX - p),
\* top = max(0, minY - p), right = min(width - 1, maxX + p),
\* bottom = min(height - 1, maxY + p)
C16_CropIsPaddedBox ==
  (geo.done /\ geo.found) =>
    /\ geo.crop.left = Max({0, geo.box.minX - padding})
    /\ geo.crop.top = Max({0, geo.box.minY - padding})
    /\ geo.crop.left + geo.crop.width - 1 = Min({geo.img.w - 1, geo.box.maxX + padding})
    /\ geo.crop.top + geo.crop.height - 1 = Min({geo.img.h - 1, geo.box.maxY + padding})

\* C17: the fit step never makes the crop wider or higher, leaves a crop
\* that is already within maxWidth x maxHeight as it is, and always ends
\* with finalWidth <= maxWidth = 716 and finalHeight <= maxHeight = 614
C17_FitNeverEnlarges ==
  geo.done =>
    /\ maxWidth = 716 /\ maxHeight = 614
    /\ geo.final.w <= geo.crop.width
    /\ geo.final.h <= geo.crop.height
    /\ (geo.crop.width <= maxWidth /\ geo.crop.height <= maxHeight) =>
         (geo.final.w = geo.crop.width /\ geo.final.h = geo.crop.height)
    /\ geo.final.w <= maxWidth
    /\ geo.final.h <= maxHeight
    /\ geo.final.w >= 1 /\ geo.final.h >= 1

\* C17 witness: a crop higher than maxHeight but not wider than maxWidth has
\* been resized
C17_Witness ==
  /\ geo.done
  /\ geo.crop.width <= maxWidth /\ geo.crop.height > maxHeight
  /\ geo.final.h = maxHeight /\ geo.final.w < geo.crop.width

\* the distance in pixels between the bottom edge of the product and the
\* bottom edge of the canvas
C18_Gap == CanvasSize - (geo.top + geo.final.h)

\* C18 as stated: the product is centred horizontally and the distance of
\* its bottom edge from the canvas bottom is between 10% and 15% of the
\* canvas height
C18_GapTenToFifteenPercent ==
  geo.done =>
    /\ 2 * geo.left <= CanvasSize - geo.final.w
    /\ CanvasSize - geo.final.w <= 2 * geo.left + 1
    /\ 10 * CanvasSize <= 100 * C18_Gap
    /\ 100 * C18_Gap <= 15 * CanvasSize

\* C18: the product is centred horizontally, left = floor((1024 -
\* finalWidth) / 2), and the distance of its bottom edge from the canvas
\* bottom is 154 pixels for every product size: 15% of 1024 rounded up to
\* whole pixels, which is more than 15% and less than 15% plus one pixel
C18_CentredGap154 ==
  geo.done =>
    /\ 2 * geo.left <= CanvasSize - geo.final.w
    /\ CanvasSize - geo.final.w <= 2 * geo.left + 1
    /\ C18_Gap = 154
    /\ 100 * C18_Gap > 15 * CanvasSize
    /\ 100 * (C18_Gap - 1) < 15 * CanvasSize

\* C18 witness: a product that was resized to the full maxWidth and one of
\* odd width have been placed
C18_Witness ==
  /\ geo.done
  /\ geo.final.w % 2 = 1
  /\ geo.final.w < geo.crop.width
  /\ geo.top > 0 /\ geo.left > 0

\* C19: the mask given to the inpaint request is computed from the alpha
\* channel of the image: per pixel 255 where the alpha is below 128 and 0
\* elsewhere, and the mask has the size of the image
C19_MaskFromAlpha ==
  maskPx.made =>
    /\ \A p \in SamplePixels :
         maskPx.px[p].value = (IF maskPx.px[p].alpha < 128 THEN 255 ELSE 0)
    /\ maskPx.w = maskPx.srcW
    /\ maskPx.h = maskPx.srcH

\* the operations of the last finalizer call that change pixels
C20_PixelSteps == SelectSeq(steps, LAMBDA o : o # "png")

\* C20: the finalizer flattens onto white first, then adjusts, and
\* whitenNearWhitePixels is the last operation that changes pixels; its
\* output is a fully opaque 1024x1024 png
C20_WhitenLast ==
  steps # << >> =>
    /\ C20_PixelSteps[1] = "flatten"
    /\ C20_PixelSteps[Len(C20_PixelSteps)] = "whitenNearWhitePixels"
    /\ \A i \in 2..(Len(C20_PixelSteps) - 1) :
         C20_PixelSteps[i] \in {"modulate", "sharpen", "linear"}
    /\ fs["output"].fmt = "png" /\ fs["output"].ch = 3
    /\ fs["output"].w = 1024 /\ fs["output"].h = 1024

\* C24: for every box the scan produces on an image of any size, the
\* whole-image fallback included, the rectangle given to extract is valid
\* (cropLeft >= 0, cropTop >= 0, cropWidth >= 1, cropHeight >= 1,
\* cropLeft + cropWidth <= width, cropTop + cropHeight <= height) and
\* contains the whole box
C24_CropValid ==
  geo.done =>
    /\ geo.crop.left >= 0 /\ geo.crop.top >= 0
    /\ geo.crop.width >= 1 /\ geo.crop.height >= 1
    /\ geo.crop.left + geo.crop.width <= geo.img.w
    /\ geo.crop.top + geo.crop.height <= geo.img.h
    /\ geo.crop.left <= geo.box.minX
    /\ geo.crop.top <= geo.box.minY
    /\ geo.box.maxX <= geo.crop.left + geo.crop.width - 1
    /\ geo.box.maxY <= geo.crop.top + geo.crop.height - 1

\* C24 witness: a box that reaches the last column and the last row of a
\* 1024x1024 image and is within the padding of neither the left nor the
\* top edge has been cropped
C24_Witness ==
  /\ geo.done /\ geo.found
  /\ geo.img.w = 1024 /\ geo.img.h = 1024
  /\ geo.box.maxX = 1023 /\ geo.box.maxY = 1023
  /\ geo.box.minX > padding /\ geo.box.minY > padding
  /\ geo.crop.left + geo.crop.width = 1024

\* C25: for every crop size the offsets put the resized product entirely
\* inside the 1024x1024 canvas: 0 <= left, left + finalWidth <= 1024,
\* 0 <= top, top + finalHeight <= 1024
C25_PlacedInsideCanvas ==
  geo.done =>
    /\ 0 <= geo.left
    /\ geo.left + geo.final.w <= 1024
    /\ 0 <= geo.top
    /\ geo.top + geo.final.h <= 1024

\* C25 witness: the crop was the whole 1024x1024 image and has been
\* resized and placed
C25_Witness ==
  /\ geo.done
  /\ geo.crop.width = 1024 /\ geo.crop.height = 1024
  /\ geo.final.h = maxHeight
  /\ geo.left > 0 /\ geo.top > 0

\* removeBackground has returned or thrown
C22_Finished == rb.result \in {"primary", "fallback", "threw"}

\* C22: whenever removeBackground has finished (returned from the primary
\* path, returned from the fallback path, or thrown) the temporary file
\* outputPath + '.temp' does not exist, whatever the attempts met, a
\* response that was written but could not be decoded included (stated for
\* the runs in which no local file operation fails for a reason of its own)
C22_TempFileRemoved ==
  (~localFaults /\ C22_Finished) => ~Exists(fs["noBgTemp"])

\* C23: when the input file is missing or REMOVEBG_API_KEY is unset,
\* removeBackground throws without a request, without the local fallback
\* and without writing outputPath; the fallback runs only after the retry
\* loop has run
C23_PreconditionsThrowEarly ==
  /\ (/\ entry \in {"enhance", "removebg"}
      /\ Count("removeBackground", trace) = 1
      /\ (~Exists(fs["inputPng"]) \/ ~apiKey)) =>
       /\ rb.result = "threw"
       /\ pc = "Catch" \/ pc = "Failed"
       /\ caught = "removeBackground"
       /\ rb.requests = 0 /\ rb.attempt = 0 /\ rb.failed = << >>
       /\ ~Exists(fs["noBg"]) /\ ~Exists(fs["noBgTemp"])
  /\ fs["noBg"].by = "removeBackground:fallback" =>
       /\ rb.attempt = maxRetries + 1
       /\ Len(rb.failed) = maxRetries
       /\ rb.requests = maxRetries

\* C23 witness: removeBackground was called with the API key set on a path
\* where no file is, and has thrown
C23_Witness ==
  /\ entry = "removebg"
  /\ apiKey /\ ~Exists(fs["inputPng"])
  /\ rb.result = "threw" /\ pc = "Catch"

\* main has ended
C26_Ended == entry = "enhance" /\ pc \in {"Done", "Failed", "Exited"}

C21_Ended ==
  IF entry = "calldalle" THEN pc \in {"DeReturned", "DeThrew"}
  ELSE pc \in {"Done", "Failed"} \/ (pc = "Exited" /\ trace = << >>)

\* C21: every invocation eventually ends, in Done or Failed once main is in
\* its try block; the retry loop of each adapter makes at most 3 requests
\* and takes at most 2 backoff waits, and the catch handler of main takes
\* one step to the exit
C21_Terminates ==
  /\ [](/\ rb.requests <= 3 /\ Len(rb.waits) <= 2
        /\ de.requests <= 3 /\ Len(de.waits) <= 2)
  /\ [][pc = "Catch" => pc' = "Failed"]_vars
  /\ <>C21_Ended

\* C21 witness: removeBackground made 3 requests and took 2 waits, a later
\* stage threw, the recovery run was made and main has exited
C21_Witness ==
  /\ entry = "enhance" /\ pc = "Failed"
  /\ rb.requests = 3 /\ Len(rb.waits) = 2
  /\ caught = "enhanceImageWithSharp"
  /\ recovered \in {"ok", "failed"}

================================================================================
